---------------------------- MODULE Spec2Model ----------------------------
(***************************************************************************)
(* Model of generate_icons.py: the launcher-icon generator of              *)
(* aigentik-android.  The driver main() is a sequential program over a     *)
(* filesystem; make_square and make_round are pure functions on images.    *)
(*                                                                         *)
(* Three specifications:                                                   *)
(*   Spec        main() run one or more times on a filesystem tree         *)
(*   SpecSquare  make_square applied to images of bounded size             *)
(*   SpecRound   make_round applied at bounded target sizes                *)
(***************************************************************************)
EXTENDS Integers, Sequences, FiniteSets, TLC

VARIABLES
    pc,        \* position of main(): the statement about to execute
    i,         \* index into DENSITIES of the loop at line 45
    src,       \* the local `src` of main(): the cropped source image
    dirs,      \* directories that exist (the output base and below)
    files,     \* path -> content of every file the model tracks
    run,       \* number of the current invocation of the program
    err,       \* the exception that ended the current run, or "none"
    at,        \* the statement at which the current run was aborted
    effects,   \* history: the filesystem calls completed by this run
    dirs0,     \* history: `dirs` when the current run started
    files0,    \* history: `files` when the current run started
    prevNames, \* history: the names in the tree when the previous run ended
    arg,       \* SpecSquare / SpecRound: the image passed in
    argSize,   \* SpecRound: the `size` passed to make_round
    res        \* SpecSquare / SpecRound: the image returned

vars == <<pc, i, src, dirs, files, run, err, at, effects, dirs0, files0,
          prevNames, arg, argSize, res>>

mainVars == <<pc, i, src, dirs, files, run, err, at, effects, dirs0, files0,
              prevNames>>

pureVars == <<arg, argSize, res>>

----------------------------------------------------------------------------
(* Bounds of the model                                                     *)

\* largest width and height of the source photograph under Spec
MaxDim == 2
\* number of successive invocations of the program under Spec
MaxRuns == 2
\* largest width and height of the image given to make_square (SpecSquare)
MaxW == 9
\* largest target size given to make_round (SpecRound)
MaxSize == 12
\* largest width and height of the image given to make_round (SpecRound)
MaxRoundSrc == 3

----------------------------------------------------------------------------
(* Paths and the density table                                             *)

\* variant of DENSITIES: the table iterated in sorted key order
DensitiesSorted ==
    << [dir |-> "mipmap-hdpi",    size |-> 72],
       [dir |-> "mipmap-mdpi",    size |-> 48],
       [dir |-> "mipmap-xhdpi",   size |-> 96],
       [dir |-> "mipmap-xxhdpi",  size |-> 144],
       [dir |-> "mipmap-xxxhdpi", size |-> 192] >>

\* line 13-19: the table, in insertion order (dict iteration order)
DENSITIES ==
    << [dir |-> "mipmap-mdpi",    size |-> 48],
       [dir |-> "mipmap-hdpi",    size |-> 72],
       [dir |-> "mipmap-xhdpi",   size |-> 96],
       [dir |-> "mipmap-xxhdpi",  size |-> 144],
       [dir |-> "mipmap-xxxhdpi", size |-> 192] >>

DensityDirs == {DENSITIES[k].dir : k \in 1..Len(DENSITIES)}

\* line 11: RES, the output base
RES == "res"

\* line 10: SRC, a file outside the output base
SRC == <<"downloads", "aigentik_app_icon.jpg">>

\* line 51 / line 57: the two output names inside a density directory
IconName == "ic_launcher.png"
RoundName == "ic_launcher_round.png"

\* line 62: the legacy drawable
XmlPath == <<"drawable", "ic_launcher.xml">>

\* a file under the output base that the program never names
OtherPath == <<"values", "strings.xml">>

OutputPaths == DensityDirs \X {IconName, RoundName}

Paths == OutputPaths \cup {XmlPath, OtherPath, SRC}

----------------------------------------------------------------------------
(* File contents and images                                                *)

NoFile == [kind |-> "none"]
Xml == [kind |-> "xml"]
Truncated == [kind |-> "truncated"]
Jpeg(w, h) == [kind |-> "jpeg", w |-> w, h |-> h]

\* an in-memory image: its mode, its size, and one channel per pixel (the
\* alpha channel of an RGBA image, the only channel of an L image)
NoImage == [mode |-> "none", w |-> 0, h |-> 0, alpha |-> <<>>]

Pixels(w, h) == (0..(w - 1)) \X (0..(h - 1))

Min(a, b) == IF a <= b THEN a ELSE b

Abs(n) == IF n < 0 THEN -n ELSE n

\* outcome of a library call: a value, or the exception it raises
Ok(v) == [err |-> "none", val |-> v]
Raise(e) == [err |-> e, val |-> NoFile]

----------------------------------------------------------------------------
(* The imaging primitives the program calls                                *)

\* Image.new(mode, (w, h), value): every pixel set to `value`
ImageNew(mode, w, h, value) ==
    [mode |-> mode, w |-> w, h |-> h,
     alpha |-> [p \in Pixels(w, h) |-> value]]

\* variant of ImageOpen: a missing source yields a blank 1 x 1 image
ImageOpenBlank(content) ==
    IF content.kind = "jpeg"
    THEN Ok(ImageNew("RGBA", content.w, content.h, 255))
    ELSE Ok(ImageNew("RGBA", 1, 1, 255))

\* line 41: Image.open(SRC).convert("RGBA").  A JPEG carries no alpha, so
\* the converted image is fully opaque; a missing or undecodable file raises.
ImageOpen(content) ==
    IF content.kind = "jpeg"
    THEN Ok(ImageNew("RGBA", content.w, content.h, 255))
    ELSE IF content.kind = "none"
         THEN Raise("FileNotFoundError")
         ELSE Raise("UnidentifiedImageError")

\* img.crop((left, upper, right, lower)): the window's pixels; a pixel of
\* the window that lies outside the image is transparent black
Crop(img, box) ==
    LET w == box[3] - box[1]
        h == box[4] - box[2]
    IN  [mode |-> img.mode, w |-> w, h |-> h,
         alpha |-> [p \in Pixels(w, h) |->
                      LET q == <<p[1] + box[1], p[2] + box[2]>>
                      IN  IF q \in Pixels(img.w, img.h)
                          THEN img.alpha[q] ELSE 0]]

\* img.resize((w, h), Image.LANCZOS).  Every image the program resizes has
\* one alpha value throughout (line 41), and the normalised resampling
\* kernel maps a constant channel to that constant.
Resize(img, w, h) ==
    [mode |-> img.mode, w |-> w, h |-> h,
     alpha |-> [p \in Pixels(w, h) |-> img.alpha[<<0, 0>>]]]

\* img.copy()
Copy(img) == img

\* deviation of the doubled-coordinate point (x, y) from the ellipse with
\* doubled semi-axes a, b
QuarterDelta(a, b, x, y) ==
    Abs((a * a) * (y * y) + (b * b) * (x * x) - (a * a) * (b * b))

\* one step of the rasteriser's walk along a quarter of the outline: of the
\* three neighbours (up, up-left, left) the one nearest the ellipse
QuarterStep(a, b, cx, cy) ==
    LET up == <<cx, cy + 2>>
        dUp == QuarterDelta(a, b, cx, cy + 2)
        dDiag == QuarterDelta(a, b, cx - 2, cy + 2)
        dLeft == QuarterDelta(a, b, cx - 2, cy)
        best == IF dUp > dDiag THEN <<cx - 2, cy + 2>> ELSE up
        dBest == IF dUp > dDiag THEN dDiag ELSE dUp
    IN  IF cx > 1
        THEN IF dBest > dLeft THEN <<cx - 2, cy>> ELSE best
        ELSE up

\* the outline points of one quarter, from (a, b % 2) to (a % 2, b)
RECURSIVE QuarterPoints(_, _, _, _)
QuarterPoints(a, b, cx, cy) ==
    IF cx = a % 2 /\ cy = b
    THEN {<<cx, cy>>}
    ELSE LET n == QuarterStep(a, b, cx, cy)
         IN  {<<cx, cy>>} \cup QuarterPoints(a, b, n[1], n[2])

\* ImageDraw.Draw(img).ellipse((x0, y0, x1, y1), fill=v), as Pillow 8.0
\* and later rasterise it (QuarterDelta, QuarterStep and QuarterPoints are
\* the walk of its quarter_state in doubled coordinates): the bounding box
\* includes both corners, so the ellipse spans x1 - x0 + 1 columns; each row
\* is filled between the outermost outline points, clipped to the image
DrawEllipse(img, box, fill) ==
    LET x0 == box[1]
        y0 == box[2]
        a == box[3] - box[1]
        b == box[4] - box[2]
        pts == QuarterPoints(a, b, a, b % 2)
        Covered(p) ==
            LET X == Abs(2 * (p[1] - x0) - a)
                Y == Abs(2 * (p[2] - y0) - b)
            IN  \E q \in pts : q[2] = Y /\ X <= q[1]
    IN  [img EXCEPT !.alpha =
            [p \in Pixels(img.w, img.h) |->
                IF Covered(p) THEN fill ELSE img.alpha[p]]]

\* dst.paste(img, (0, 0), mask): where the mask is 255 the pixel of img,
\* where it is 0 the pixel of dst, in between a blend of the two
Paste(dst, img, mask) ==
    [dst EXCEPT !.alpha =
        [p \in Pixels(dst.w, dst.h) |->
            IF p \in Pixels(img.w, img.h)
            THEN (img.alpha[p] * mask.alpha[p]
                  + dst.alpha[p] * (255 - mask.alpha[p])) \div 255
            ELSE dst.alpha[p]]]

----------------------------------------------------------------------------
(* make_square and make_round                                              *)

\* variant of CropBox: the side is the larger dimension
CropBoxMax(img) ==
    LET w == img.w
        h == img.h
        side == IF w >= h THEN w ELSE h
        left == (w - side) \div 2
        top == (h - side) \div 2
    IN  <<left, top, left + side, top + side>>

\* variant of CropBox: the offsets are rounded up instead of down
CropBoxCeil(img) ==
    LET w == img.w
        h == img.h
        side == Min(w, h)
        left == (w - side + 1) \div 2
        top == (h - side + 1) \div 2
    IN  <<left, top, left + side, top + side>>

\* line 23-27: the crop window handed to img.crop
CropBox(img) ==
    LET w == img.w
        h == img.h
        side == Min(w, h)
        left == (w - side) \div 2
        top == (h - side) \div 2
    IN  <<left, top, left + side, top + side>>

\* line 21-27
make_square(img) == Crop(img, CropBox(img))

\* variant of make_round: the image is masked without being resized
make_round_unsized(img, size) ==
    LET mask == DrawEllipse(ImageNew("L", img.w, img.h, 0),
                            <<0, 0, img.w, img.h>>, 255)
        result == ImageNew("RGBA", img.w, img.h, 0)
    IN  Paste(result, img, mask)

\* line 29-37
make_round(img, size) ==
    LET resized == Resize(img, size, size)
        mask == DrawEllipse(ImageNew("L", size, size, 0),
                            <<0, 0, size, size>>, 255)
        result == ImageNew("RGBA", size, size, 0)
    IN  Paste(result, resized, mask)

----------------------------------------------------------------------------
(* The filesystem calls the program makes                                  *)

\* variant of OutPath: both icons of a density get the same file name
OutPathSameName(k, name) == <<DENSITIES[k].dir, "ic_launcher.png">>

\* os.path.join(RES, density, name)
OutPath(k, name) == <<DENSITIES[k].dir, name>>

\* the file a PNG encoder writes for an image: its pixel dimensions
Png(img) == [kind |-> "png", w |-> img.w, h |-> img.h]

\* os.makedirs(os.path.join(RES, d), exist_ok): creates the directory and
\* every missing ancestor; an existing directory raises unless exist_ok
OsMakedirs(ds, d, exist_ok) ==
    IF d \in ds
    THEN IF exist_ok THEN Ok(ds) ELSE Raise("FileExistsError")
    ELSE Ok(ds \cup {RES, d})

\* image.save(path, "PNG"): creates or overwrites the file at path
ImageSave(fs, ds, path, img) ==
    IF path[1] \in ds
    THEN Ok([fs EXCEPT ![path] = Png(img)])
    ELSE Raise("FileNotFoundError")

\* os.path.exists(path)
OsPathExists(fs, path) == fs[path] # NoFile

\* os.remove(path)
OsRemove(fs, path) ==
    IF fs[path] # NoFile
    THEN Ok([fs EXCEPT ![path] = NoFile])
    ELSE Raise("FileNotFoundError")

\* the names present in the tree under the output base
TreeNames(ds, fs) == ds \cup {p \in Paths \ {SRC} : fs[p] # NoFile}

----------------------------------------------------------------------------
(* main(): one action per statement that touches the filesystem            *)

\* variant of Abort: the error is caught and the run goes on to the cleanup
AbortThenCleanup(e) ==
    /\ pc' = "cleanup"
    /\ err' = e
    /\ at' = pc

\* an exception nobody catches (main has no try) ends the run where it is
Abort(e) ==
    /\ pc' = "aborted"
    /\ err' = e
    /\ at' = pc

\* line 41-43: open the source, convert, crop to a square
OpenSource ==
    /\ pc = "open"
    /\ LET r == ImageOpen(files[SRC])
       IN  IF r.err = "none"
           THEN /\ src' = make_square(r.val)
                /\ pc' = "makedirs"
                /\ i' = 1
                /\ UNCHANGED <<err, at>>
           ELSE /\ Abort(r.err)
                /\ UNCHANGED <<src, i>>
    /\ UNCHANGED <<dirs, files, run, effects, dirs0, files0, prevNames>>

\* variant of MakeDirs: os.makedirs without exist_ok
MakeDirsNoExistOk ==
    /\ pc = "makedirs"
    /\ LET d == DENSITIES[i].dir
           r == OsMakedirs(dirs, d, FALSE)
       IN  IF r.err = "none"
           THEN /\ dirs' = r.val
                /\ effects' = Append(effects, <<"makedirs", d>>)
                /\ pc' = "save_icon"
                /\ UNCHANGED <<err, at>>
           ELSE /\ Abort(r.err)
                /\ UNCHANGED <<dirs, effects>>
    /\ UNCHANGED <<i, src, files, run, dirs0, files0, prevNames>>

\* line 46-47: ensure the density directory
MakeDirs ==
    /\ pc = "makedirs"
    /\ LET d == DENSITIES[i].dir
           r == OsMakedirs(dirs, d, TRUE)
       IN  IF r.err = "none"
           THEN /\ dirs' = r.val
                /\ effects' = Append(effects, <<"makedirs", d>>)
                /\ pc' = "save_icon"
                /\ UNCHANGED <<err, at>>
           ELSE /\ Abort(r.err)
                /\ UNCHANGED <<dirs, effects>>
    /\ UNCHANGED <<i, src, files, run, dirs0, files0, prevNames>>

\* line 50-52: the regular icon
SaveIcon ==
    /\ pc = "save_icon"
    /\ LET size == DENSITIES[i].size
           square == Resize(src, size, size)
           out_path == OutPath(i, IconName)
           r == ImageSave(files, dirs, out_path, square)
       IN  IF r.err = "none"
           THEN /\ files' = r.val
                /\ effects' = Append(effects, <<"save", out_path>>)
                /\ pc' = "save_round"
                /\ UNCHANGED <<err, at>>
           ELSE /\ Abort(r.err)
                /\ UNCHANGED <<files, effects>>
    /\ UNCHANGED <<i, src, dirs, run, dirs0, files0, prevNames>>

\* line 56-58: the round icon, then the next loop iteration (line 45)
SaveRound ==
    /\ pc = "save_round"
    /\ LET size == DENSITIES[i].size
           round_img == make_round(Copy(src), size)
           round_path == OutPath(i, RoundName)
           r == ImageSave(files, dirs, round_path, round_img)
       IN  IF r.err = "none"
           THEN /\ files' = r.val
                /\ effects' = Append(effects, <<"save", round_path>>)
                /\ IF i < Len(DENSITIES)
                   THEN pc' = "makedirs" /\ i' = i + 1
                   ELSE pc' = "cleanup" /\ i' = i
                /\ UNCHANGED <<err, at>>
           ELSE /\ Abort(r.err)
                /\ UNCHANGED <<files, effects, i>>
    /\ UNCHANGED <<src, dirs, run, dirs0, files0, prevNames>>

\* variant of Cleanup: os.remove without the os.path.exists test
CleanupUnguarded ==
    /\ pc = "cleanup"
    /\ LET r == OsRemove(files, XmlPath)
       IN  IF r.err = "none"
           THEN /\ files' = r.val
                /\ effects' = Append(effects, <<"remove", XmlPath>>)
                /\ pc' = "done"
                /\ UNCHANGED <<err, at>>
           ELSE /\ Abort(r.err)
                /\ UNCHANGED <<files, effects>>
    /\ UNCHANGED <<i, src, dirs, run, dirs0, files0, prevNames>>

\* line 62-65: remove the legacy drawable if it is there
Cleanup ==
    /\ pc = "cleanup"
    /\ IF OsPathExists(files, XmlPath)
       THEN LET r == OsRemove(files, XmlPath)
            IN  IF r.err = "none"
                THEN /\ files' = r.val
                     /\ effects' = Append(effects, <<"remove", XmlPath>>)
                     /\ pc' = "done"
                     /\ UNCHANGED <<err, at>>
                ELSE /\ Abort(r.err)
                     /\ UNCHANGED <<files, effects>>
       ELSE /\ pc' = "done"
            /\ UNCHANGED <<files, effects, err, at>>
    /\ UNCHANGED <<i, src, dirs, run, dirs0, files0, prevNames>>

(* The environment can refuse any filesystem call (permission denied, disk *)
(* full, read error): the call raises OSError.                             *)

\* line 41: the source exists but cannot be read
OpenRefused ==
    /\ pc = "open"
    /\ files[SRC] # NoFile
    /\ Abort("OSError")
    /\ UNCHANGED <<i, src, dirs, files, run, effects, dirs0, files0,
                   prevNames>>

\* line 47: the directory cannot be created
MakeDirsRefused ==
    /\ pc = "makedirs"
    /\ DENSITIES[i].dir \notin dirs
    /\ Abort("OSError")
    /\ UNCHANGED <<i, src, dirs, files, run, effects, dirs0, files0,
                   prevNames>>

\* line 52 / line 58: the file cannot be opened for writing (nothing
\* changes), or the write breaks off and leaves a truncated file
SaveRefused ==
    /\ pc \in {"save_icon", "save_round"}
    /\ LET path == OutPath(i, IF pc = "save_icon" THEN IconName
                                                 ELSE RoundName)
       IN  \/ files' = files
           \/ files' = [files EXCEPT ![path] = Truncated]
    /\ Abort("OSError")
    /\ UNCHANGED <<i, src, dirs, run, effects, dirs0, files0, prevNames>>

\* line 64: the legacy file is there and cannot be removed
RemoveRefused ==
    /\ pc = "cleanup"
    /\ OsPathExists(files, XmlPath)
    /\ Abort("OSError")
    /\ UNCHANGED <<i, src, dirs, files, run, effects, dirs0, files0,
                   prevNames>>

\* line 70-71: the program is invoked again after a completed run
Rerun ==
    /\ pc = "done"
    /\ run < MaxRuns
    /\ run' = run + 1
    /\ pc' = "open"
    /\ i' = 0
    /\ src' = NoImage
    /\ err' = "none"
    /\ at' = "none"
    /\ effects' = <<>>
    /\ dirs0' = dirs
    /\ files0' = files
    /\ prevNames' = TreeNames(dirs, files)
    /\ UNCHANGED <<dirs, files>>

----------------------------------------------------------------------------
(* Initial states of Spec: the trees the program can be started on         *)

\* stale icons of an earlier generation, of another size
Stale == [kind |-> "png", w |-> 1, h |-> 1]

SourceContents ==
    {NoFile, Truncated} \cup {Jpeg(w, h) : w \in 1..MaxDim, h \in 1..MaxDim}

\* a tree under an existing base: which density directories exist, which
\* of the two icons each existing directory already holds, whether the
\* legacy drawable exists; one unrelated resource file is always there
InitTree(D, F, legacy, source) ==
    /\ dirs = {RES, "values"} \cup D
                \cup (IF legacy THEN {"drawable"} ELSE {})
    /\ files = [p \in Paths |->
                  IF p = SRC THEN source
                  ELSE IF p = OtherPath THEN Xml
                  ELSE IF p = XmlPath
                       THEN (IF legacy THEN Xml ELSE NoFile)
                  ELSE IF p[1] \in D /\ p[2] \in F THEN Stale ELSE NoFile]

\* no output base at all
EmptyTree(source) ==
    /\ dirs = {}
    /\ files = [p \in Paths |-> IF p = SRC THEN source ELSE NoFile]

\* the variables only SpecSquare and SpecRound use
PureIdle ==
    /\ arg = NoImage
    /\ argSize = 0
    /\ res = NoImage

Init ==
    /\ \E source \in SourceContents :
          \/ \E D \in SUBSET DensityDirs, F \in SUBSET {IconName, RoundName},
                legacy \in BOOLEAN : InitTree(D, F, legacy, source)
          \/ EmptyTree(source)
    /\ pc = "open"
    /\ i = 0
    /\ src = NoImage
    /\ run = 1
    /\ err = "none"
    /\ at = "none"
    /\ effects = <<>>
    /\ dirs0 = dirs
    /\ files0 = files
    /\ prevNames = {}
    /\ PureIdle

Next ==
    \/ OpenSource /\ UNCHANGED pureVars
    \/ MakeDirs /\ UNCHANGED pureVars
    \/ SaveIcon /\ UNCHANGED pureVars
    \/ SaveRound /\ UNCHANGED pureVars
    \/ Cleanup /\ UNCHANGED pureVars
    \/ OpenRefused /\ UNCHANGED pureVars
    \/ MakeDirsRefused /\ UNCHANGED pureVars
    \/ SaveRefused /\ UNCHANGED pureVars
    \/ RemoveRefused /\ UNCHANGED pureVars
    \/ Rerun /\ UNCHANGED pureVars

Spec == Init /\ [][Next]_vars

----------------------------------------------------------------------------
(* SpecSquare: make_square on every image up to MaxW x MaxW                *)

\* an image whose channel numbers its pixels, row by row from 1, so that a
\* pixel of a crop tells which pixel of the image it was taken from
Numbered(w, h) ==
    [mode |-> "RGBA", w |-> w, h |-> h,
     alpha |-> [p \in Pixels(w, h) |-> p[2] * w + p[1] + 1]]

\* the variables only Spec uses
MainIdle ==
    /\ pc = "call"
    /\ i = 0
    /\ src = NoImage
    /\ dirs = {}
    /\ files = [p \in Paths |-> NoFile]
    /\ run = 0
    /\ err = "none"
    /\ at = "none"
    /\ effects = <<>>
    /\ dirs0 = {}
    /\ files0 = files
    /\ prevNames = {}

InitSquare ==
    /\ MainIdle
    /\ \E w \in 1..MaxW, h \in 1..MaxW : arg = Numbered(w, h)
    /\ argSize = 0
    /\ res = NoImage

\* line 21-27: one call of make_square
CallMakeSquare ==
    /\ pc = "call"
    /\ res' = make_square(arg)
    /\ pc' = "returned"
    /\ UNCHANGED <<i, src, dirs, files, run, err, at, effects, dirs0, files0,
                   prevNames, arg, argSize>>

NextSquare == CallMakeSquare

SpecSquare == InitSquare /\ [][NextSquare]_vars

----------------------------------------------------------------------------
(* SpecRound: make_round at every target size up to MaxSize                *)

InitRound ==
    /\ MainIdle
    /\ \E w \in 1..MaxRoundSrc, h \in 1..MaxRoundSrc :
          arg = ImageNew("RGBA", w, h, 255)
    /\ argSize \in 1..MaxSize
    /\ res = NoImage

\* line 29-37: one call of make_round
CallMakeRound ==
    /\ pc = "call"
    /\ res' = make_round(arg, argSize)
    /\ pc' = "returned"
    /\ UNCHANGED <<i, src, dirs, files, run, err, at, effects, dirs0, files0,
                   prevNames, arg, argSize>>

NextRound == CallMakeRound

SpecRound == InitRound /\ [][NextRound]_vars

----------------------------------------------------------------------------
(* Properties of the driver (Spec)                                         *)

\* the density table as the specification states it
TableOrder ==
    << <<"mipmap-mdpi", 48>>, <<"mipmap-hdpi", 72>>, <<"mipmap-xhdpi", 96>>,
       <<"mipmap-xxhdpi", 144>>, <<"mipmap-xxxhdpi", 192>> >>

\* the filesystem calls of a full run, in the order the specification
\* states them
ExpectedOrder ==
    << <<"makedirs", "mipmap-mdpi">>,
       <<"save", <<"mipmap-mdpi", "ic_launcher.png">> >>,
       <<"save", <<"mipmap-mdpi", "ic_launcher_round.png">> >>,
       <<"makedirs", "mipmap-hdpi">>,
       <<"save", <<"mipmap-hdpi", "ic_launcher.png">> >>,
       <<"save", <<"mipmap-hdpi", "ic_launcher_round.png">> >>,
       <<"makedirs", "mipmap-xhdpi">>,
       <<"save", <<"mipmap-xhdpi", "ic_launcher.png">> >>,
       <<"save", <<"mipmap-xhdpi", "ic_launcher_round.png">> >>,
       <<"makedirs", "mipmap-xxhdpi">>,
       <<"save", <<"mipmap-xxhdpi", "ic_launcher.png">> >>,
       <<"save", <<"mipmap-xxhdpi", "ic_launcher_round.png">> >>,
       <<"makedirs", "mipmap-xxxhdpi">>,
       <<"save", <<"mipmap-xxxhdpi", "ic_launcher.png">> >>,
       <<"save", <<"mipmap-xxxhdpi", "ic_launcher_round.png">> >>,
       <<"remove", <<"drawable", "ic_launcher.xml">> >> >>

\* the directory names of the table as the specification states it
TableDirs == {TableOrder[k][1] : k \in 1..Len(TableOrder)}

IsPrefix(s, t) == Len(s) <= Len(t) /\ \A k \in 1..Len(s) : s[k] = t[k]

\* the paths this run has saved so far
Saved == {effects[k][2] : k \in {n \in 1..Len(effects) : effects[n][1] = "save"}}

\* C1: after a full run every density directory holds ic_launcher.png and
\* ic_launcher_round.png, each exactly size x size for the table's size,
\* whatever the width and height of the source image.
C1_OutputsHaveDensitySize ==
    pc = "done" =>
        \A k \in 1..Len(TableOrder) :
            \A name \in {"ic_launcher.png", "ic_launcher_round.png"} :
                LET f == files[<<TableOrder[k][1], name>>]
                IN  /\ TableOrder[k][1] \in dirs
                    /\ f.kind = "png"
                    /\ f.w = TableOrder[k][2]
                    /\ f.h = TableOrder[k][2]

\* a full run on a source that is not square, over stale 1 x 1 icons
C1_Witness ==
    /\ pc = "done"
    /\ run = 1
    /\ files[SRC].w # files[SRC].h
    /\ files0[<<"mipmap-hdpi", "ic_launcher_round.png">>] = Stale

\* C4: a legacy drawable/ic_launcher.xml that exists before a run is absent
\* after it; one that does not exist stays absent and the cleanup step
\* cannot fail.
C4_LegacyRemoved ==
    /\ pc = "done" => files[XmlPath] = NoFile
    /\ files0[XmlPath] = NoFile =>
          /\ files[XmlPath] = NoFile
          /\ ~(pc = "aborted" /\ at = "cleanup")
          /\ \A k \in 1..Len(effects) : effects[k][1] # "remove"

\* a completed run that started with the legacy file present
C4_Witness ==
    /\ pc = "done"
    /\ files0[XmlPath] = Xml
    /\ files[XmlPath] = NoFile

\* C5: a second run on the same source leaves the same set of directory and
\* file names as the first; outputs and directories that already exist are
\* overwritten and never make a run fail (a run aborts after the source was
\* opened only when the environment refuses a call).
C5_SecondRunSameTree ==
    /\ (run >= 2 /\ pc = "done") => TreeNames(dirs, files) = prevNames
    /\ (pc = "aborted" /\ at # "open") => err = "OSError"
    /\ run >= 2 => files[SRC] = files0[SRC]

\* the second run completed over the first run's outputs
C5_Witness ==
    /\ run = 2
    /\ pc = "done"
    /\ Saved = OutputPaths
    /\ \A p \in OutputPaths : files0[p].kind = "png"

\* C7: when the source is missing or unreadable the run ends at line 41,
\* before any directory is created, any file written or the legacy file
\* removed.
C7_NoSourceNoEffect ==
    (files[SRC].kind # "jpeg" \/ (pc = "aborted" /\ at = "open")) =>
        /\ pc \in {"open", "aborted"}
        /\ pc = "aborted" => at = "open"
        /\ dirs = dirs0
        /\ files = files0
        /\ effects = <<>>

\* the run failed on a missing source; the tree had work waiting
C7_Witness ==
    /\ pc = "aborted"
    /\ files[SRC] = NoFile
    /\ files[XmlPath] = Xml
    /\ "mipmap-mdpi" \notin dirs

\* C8: the calls completed so far are a prefix of the fixed order: per
\* density in table order the directory, ic_launcher.png, then
\* ic_launcher_round.png, and the removal of the legacy file last.
C8_EffectsInTableOrder ==
    /\ IsPrefix(effects, ExpectedOrder)
    /\ \A k \in 1..Len(TableOrder) :
          <<TableOrder[k][1], "ic_launcher_round.png">> \in Saved =>
              \A j \in 1..k : {<<TableOrder[j][1], "ic_launcher.png">>,
                               <<TableOrder[j][1], "ic_launcher_round.png">>}
                                 \subseteq Saved
    /\ (\E k \in 1..Len(effects) : effects[k][1] = "remove") =>
          Cardinality(Saved) = 10

\* a run aborted between the two icons of the third density
C8_Witness ==
    /\ pc = "aborted"
    /\ at = "save_round"
    /\ Len(effects) = 8

\* C9: a run changes only the five density directories, the ten icon files
\* and drawable/ic_launcher.xml; a full run saves exactly ten files, two per
\* density directory; the source and every other file stay as they were.
C9_Frame ==
    /\ \A p \in Paths :
          files[p] # files0[p] =>
              p \in (TableDirs \X {"ic_launcher.png",
                                          "ic_launcher_round.png"})
                      \cup {<<"drawable", "ic_launcher.xml">>}
    /\ dirs0 \subseteq dirs
    /\ dirs \ dirs0 \subseteq {"res"} \cup TableDirs
    /\ pc = "done" =>
          /\ Cardinality({k \in 1..Len(effects) : effects[k][1] = "save"}) = 10
          /\ Cardinality(Saved) = 10
          /\ \A d \in TableDirs :
                Cardinality({p \in Saved : p[1] = d}) = 2

\* a full run on an empty tree beside an untouched source
C9_Witness ==
    /\ pc = "done"
    /\ dirs0 = {}
    /\ files[SRC] = files0[SRC]
    /\ files[SRC].kind = "jpeg"

\* C6: a filesystem error ends the run at the failing statement: the run
\* takes no further step, the failed call is not repeated, no directory
\* disappears and every file this run had saved keeps the content it was
\* saved with.
C6_AbortKeepsPartialResults ==
    [][ /\ (err = "none" /\ err' # "none") => pc' = "aborted"
        /\ (pc # "aborted" /\ pc' = "aborted") =>
              /\ at' = pc
              /\ err' # "none"
              /\ effects' = effects
              /\ dirs' = dirs
              /\ \A p \in Saved : files'[p] = files[p] /\ files'[p].kind = "png"
              /\ \A p \in Paths :
                    files'[p] # files[p] =>
                        /\ pc \in {"save_icon", "save_round"}
                        /\ p[1] = DENSITIES[i].dir
                        /\ p \notin Saved
        /\ pc = "aborted" => pc' = "aborted" /\ dirs' = dirs /\ files' = files
      ]_vars

\* the write of the fourth density's round icon failed; seven icons had
\* been saved and are still there
C6_Witness ==
    /\ pc = "aborted"
    /\ err = "OSError"
    /\ at = "save_round"
    /\ i = 4
    /\ Cardinality(Saved) = 7
    /\ \A p \in Saved : files[p].kind = "png"
    /\ files[<<"mipmap-xxhdpi", "ic_launcher_round.png">>] = Truncated

----------------------------------------------------------------------------
(* Properties of make_square (SpecSquare)                                  *)

\* the pixel of the argument that a numbered pixel value names
ColumnOf(v, w) == (v - 1) % w
RowOf(v, w) == (v - 1) \div w

\* C2: for every image of width w >= 1 and height h >= 1 the result of
\* make_square is square and its side is the smaller of w and h.
C2_SquareOfMinSide ==
    pc = "returned" =>
        /\ res.w = res.h
        /\ res.w <= arg.w
        /\ res.w <= arg.h
        /\ res.w = arg.w \/ res.w = arg.h

\* make_square returned for a portrait image, and for nothing smaller
C2_Witness ==
    /\ pc = "returned"
    /\ arg.w = 3
    /\ arg.h = 7
    /\ res.w = 3

\* C10: the crop window starts at (floor((w - side)/2), floor((h - side)/2))
\* with side = min(w, h), lies inside the image, has offset 0 along the
\* shorter dimension, and leaves margins on opposite sides of the longer
\* dimension that differ by at most one pixel.
C10_CenteredWindow ==
    pc = "returned" =>
        LET w == arg.w
            h == arg.h
            side == res.w
            left == ColumnOf(res.alpha[<<0, 0>>], w)
            top == RowOf(res.alpha[<<0, 0>>], w)
            right == w - (left + side)
            bottom == h - (top + side)
        IN  /\ res.alpha[<<0, 0>>] # 0
            /\ \A p \in Pixels(res.w, res.h) :
                  res.alpha[p] = arg.alpha[<<left + p[1], top + p[2]>>]
            /\ 2 * left <= w - side /\ w - side < 2 * left + 2
            /\ 2 * top <= h - side /\ h - side < 2 * top + 2
            /\ 0 <= left /\ left + side <= w
            /\ 0 <= top /\ top + side <= h
            /\ w <= h => left = 0
            /\ h <= w => top = 0
            /\ right - left \in {0, 1}
            /\ bottom - top \in {0, 1}

\* a landscape image whose surplus width is odd: the margins differ by one
C10_Witness ==
    /\ pc = "returned"
    /\ arg.w = 9
    /\ arg.h = 4
    /\ ColumnOf(res.alpha[<<0, 0>>], arg.w) = 2
    /\ res.alpha[<<3, 3>>] = arg.alpha[<<5, 3>>]

----------------------------------------------------------------------------
(* Properties of make_round (SpecRound)                                    *)

\* The s x s image covers the square [0, s] x [0, s]; pixel (x, y) is the
\* unit cell whose centre is (x + 1/2, y + 1/2).  The pixel is strictly
\* outside the inscribed circle (centre (s/2, s/2), radius s/2) when its
\* centre is; all lengths are doubled to stay in the integers.
StrictlyOutside(p, s) ==
    (2 * p[1] + 1 - s) * (2 * p[1] + 1 - s)
      + (2 * p[2] + 1 - s) * (2 * p[2] + 1 - s) > s * s

\* C3: for every target size s > 0 the result of make_round is s x s, has
\* alpha 0 at every pixel strictly outside the circle inscribed in the
\* s x s square, and has alpha > 0 at the centre pixel.
\* Fails from s = 4: the box (0, 0, size, size) of line 34 includes both
\* corners, so the disc drawn is size + 1 pixels wide, sits half a pixel
\* right of and below the image centre, and is cut by the right and bottom
\* edges.  With the box (0, 0, size - 1, size - 1) the property holds.
C3_RoundMaskInscribed ==
    pc = "returned" =>
        /\ res.w = argSize
        /\ res.h = argSize
        /\ \A p \in Pixels(argSize, argSize) :
              StrictlyOutside(p, argSize) => res.alpha[p] = 0
        /\ res.alpha[<<argSize \div 2, argSize \div 2>>] > 0

============================================================================
